---------------------------- MODULE Spec2Model ----------------------------
(***************************************************************************)
(* Model of deepspeed/launcher/multinode_runner.py: the multi-node launch  *)
(* command builders (PDSH, OpenMPI, Slurm, MVAPICH, MosaicML).             *)
(*                                                                         *)
(* A Python str is a sequence of one-character strings, a Python dict is   *)
(* a sequence of <<key, value>> pairs with distinct keys in insertion      *)
(* order, and a raised exception is a record naming its type.              *)
(***************************************************************************)
EXTENDS Integers, Sequences, FiniteSets, TLC

(***************************************************************************)
(* Bounds of the model.                                                    *)
(***************************************************************************)
MaxArgs == 2
MaxHosts == 2
MaxDevices == 2
MaxExports == 2

(***************************************************************************)
(* Python values.                                                          *)
(***************************************************************************)
Range(s) == {s[i] : i \in 1..Len(s)}

SeqsUpTo(S, n) == UNION {[1..k -> S] : k \in 0..n}

\* str.join(sep, parts)
RECURSIVE Join(_, _)
Join(sep, parts) ==
    IF parts = <<>> THEN <<>>
    ELSE IF Len(parts) = 1 THEN parts[1]
    ELSE parts[1] \o sep \o Join(sep, Tail(parts))

\* str.startswith / str.endswith with a one-character argument
StartsWith(s, c) == Len(s) > 0 /\ s[1] = c
EndsWith(s, c) == Len(s) > 0 /\ s[Len(s)] = c

Whitespace == {" ", "\t", "\n", "\r"}

\* str.strip(): drop leading and trailing whitespace
RECURSIVE LStrip(_)
LStrip(s) == IF s # <<>> /\ s[1] \in Whitespace THEN LStrip(Tail(s)) ELSE s
RECURSIVE RStrip(_)
RStrip(s) ==
    IF s # <<>> /\ s[Len(s)] \in Whitespace
    THEN RStrip(SubSeq(s, 1, Len(s) - 1)) ELSE s
Strip(s) == RStrip(LStrip(s))

Digits == <<"0", "1", "2", "3", "4", "5", "6", "7", "8", "9">>
DigitVal(c) == CHOOSE d \in 0..9 : Digits[d + 1] = c
IsDigit(c) == \E d \in 1..10 : Digits[d] = c

\* str(n) / f'{n}' for an int
RECURSIVE NatToStr(_)
NatToStr(n) == IF n < 10 THEN <<Digits[n + 1]>>
               ELSE NatToStr(n \div 10) \o <<Digits[(n % 10) + 1]>>
IntToStr(n) == IF n < 0 THEN <<"-">> \o NatToStr(-n) ELSE NatToStr(n)

\* dict operations (insertion-ordered)
DictKeys(d) == [i \in 1..Len(d) |-> d[i][1]]
DictValues(d) == [i \in 1..Len(d) |-> d[i][2]]
DictHas(d, k) == \E i \in 1..Len(d) : d[i][1] = k
DictGet(d, k) == d[CHOOSE i \in 1..Len(d) : d[i][1] = k][2]
\* d[k] = v: an existing key keeps its position, a new key goes last
DictSet(d, k, v) ==
    IF DictHas(d, k)
    THEN [i \in 1..Len(d) |-> IF d[i][1] = k THEN <<k, v>> ELSE d[i]]
    ELSE Append(d, <<k, v>>)

RECURSIVE Sum(_)
Sum(xs) == IF xs = <<>> THEN 0 ELSE xs[1] + Sum(Tail(xs))

(***************************************************************************)
(* json.loads / json.dumps on the fragment of JSON the inputs use:         *)
(* objects, arrays, strings with the escapes \" \\ \/ \n \t \r \f, integers   *)
(* and the literals true, false, null.  A decoded value is a record        *)
(* [t, s, n, m]: t is the Python type, s a str's characters or a           *)
(* literal's name, n an int's value, m a dict's <<key, value>> pairs or a  *)
(* list's items.                                                           *)
(***************************************************************************)
JStr(s) == [t |-> "str", s |-> s, n |-> 0, m |-> <<>>]
JInt(n) == [t |-> "int", s |-> <<>>, n |-> n, m |-> <<>>]
JLit(s) == [t |-> "lit", s |-> s, n |-> 0, m |-> <<>>]
JDict(m) == [t |-> "dict", s |-> <<>>, n |-> 0, m |-> m]
JList(m) == [t |-> "list", s |-> <<>>, n |-> 0, m |-> m]

\* a decoder step: the value and the index after it, or JSONDecodeError
Decoded(v, i) == [ok |-> TRUE, v |-> v, i |-> i]
JSONDecodeError == [ok |-> FALSE, v |-> JLit(<<>>), i |-> 0]

HasPrefixAt(s, i, p) ==
    i + Len(p) - 1 <= Len(s) /\ SubSeq(s, i, i + Len(p) - 1) = p

RECURSIVE SkipWs(_, _)
SkipWs(s, i) == IF i <= Len(s) /\ s[i] \in Whitespace THEN SkipWs(s, i + 1) ELSE i

\* json.decoder.py_scanstring, strict: s[i] is the character after the opening quote
Unescape(c) == CASE c = "n" -> "\n" [] c = "t" -> "\t" [] c = "r" -> "\r" [] c = "f" -> "\f" [] OTHER -> c
RECURSIVE ScanString(_, _, _)
ScanString(s, i, acc) ==
    IF i > Len(s) THEN JSONDecodeError
    ELSE IF s[i] = "\"" THEN Decoded(JStr(acc), i + 1)
    ELSE IF s[i] \in {"\n", "\t", "\r", "\f"} THEN JSONDecodeError
    ELSE IF s[i] = "\\"
         THEN IF i + 1 <= Len(s) /\ s[i + 1] \in {"\"", "\\", "/", "n", "t", "r", "f"}
              THEN ScanString(s, i + 2, Append(acc, Unescape(s[i + 1])))
              ELSE JSONDecodeError
    ELSE ScanString(s, i + 1, Append(acc, s[i]))

\* NUMBER_RE: -?(0|[1-9][0-9]*), with no fraction and no exponent
RECURSIVE ScanDigits(_, _, _, _)
ScanDigits(s, i, n, sign) ==
    IF i <= Len(s) /\ IsDigit(s[i]) THEN ScanDigits(s, i + 1, 10 * n + DigitVal(s[i]), sign)
    ELSE Decoded(JInt(sign * n), i)
\* s[j] must be the first digit; a leading 0 ends the match
ScanNatural(s, j, sign) ==
    IF j > Len(s) \/ ~IsDigit(s[j]) THEN JSONDecodeError
    ELSE IF s[j] = "0" THEN Decoded(JInt(0), j + 1)
    ELSE ScanDigits(s, j, 0, sign)
ScanNumber(s, i) ==
    IF s[i] = "-" THEN ScanNatural(s, i + 1, -1) ELSE ScanNatural(s, i, 1)

\* json.scanner.py_make_scanner._scan_once, JSONObject and JSONArray
RECURSIVE ScanOnce(_, _)
RECURSIVE ScanMembers(_, _, _)
RECURSIVE ScanItems(_, _, _)
RECURSIVE AfterKey(_, _, _)
RECURSIVE AfterColon(_, _, _, _)
RECURSIVE AfterMember(_, _, _, _)
RECURSIVE AfterItem(_, _, _)
RECURSIVE NextItem(_, _, _)

OpenObject(s, j) ==
    IF j <= Len(s) /\ s[j] = "}" THEN Decoded(JDict(<<>>), j + 1)
    ELSE ScanMembers(s, j, <<>>)

OpenArray(s, j) ==
    IF j <= Len(s) /\ s[j] = "]" THEN Decoded(JList(<<>>), j + 1)
    ELSE ScanItems(s, j, <<>>)

ScanOnce(s, i) ==
    IF i > Len(s) THEN JSONDecodeError
    ELSE IF s[i] = "\"" THEN ScanString(s, i + 1, <<>>)
    ELSE IF s[i] = "{" THEN OpenObject(s, SkipWs(s, i + 1))
    ELSE IF s[i] = "[" THEN OpenArray(s, SkipWs(s, i + 1))
    ELSE IF HasPrefixAt(s, i, <<"n", "u", "l", "l">>) THEN Decoded(JLit(<<"n", "u", "l", "l">>), i + 4)
    ELSE IF HasPrefixAt(s, i, <<"t", "r", "u", "e">>) THEN Decoded(JLit(<<"t", "r", "u", "e">>), i + 4)
    ELSE IF HasPrefixAt(s, i, <<"f", "a", "l", "s", "e">>) THEN Decoded(JLit(<<"f", "a", "l", "s", "e">>), i + 5)
    ELSE ScanNumber(s, i)

\* s[i] must open a property name; acc holds the pairs decoded so far
ScanMembers(s, i, acc) ==
    IF i > Len(s) \/ s[i] # "\"" THEN JSONDecodeError
    ELSE AfterKey(s, ScanString(s, i + 1, <<>>), acc)

\* key: the decoded property name; a ':' must follow it
AfterKey(s, key, acc) ==
    IF ~key.ok THEN JSONDecodeError
    ELSE AfterColon(s, key.v.s, SkipWs(s, key.i), acc)

AfterColon(s, k, c, acc) ==
    IF c > Len(s) \/ s[c] # ":" THEN JSONDecodeError
    ELSE AfterMember(s, k, ScanOnce(s, SkipWs(s, c + 1)), acc)

\* val: the decoded value of property k; '}' or ',' must follow it
AfterMember(s, k, val, acc) ==
    IF ~val.ok THEN JSONDecodeError
    ELSE NextItem(s, SkipWs(s, val.i), [t |-> "dict", m |-> DictSet(acc, k, val.v)])

ScanItems(s, i, acc) == AfterItem(s, ScanOnce(s, i), acc)

AfterItem(s, val, acc) ==
    IF ~val.ok THEN JSONDecodeError
    ELSE NextItem(s, SkipWs(s, val.i), [t |-> "list", m |-> Append(acc, val.v)])

\* e: the index after a member or an item; part: the container so far
NextItem(s, e, part) ==
    IF e > Len(s) THEN JSONDecodeError
    ELSE IF part.t = "dict"
    THEN IF s[e] = "}" THEN Decoded(JDict(part.m), e + 1)
         ELSE IF s[e] = "," THEN ScanMembers(s, SkipWs(s, e + 1), part.m)
         ELSE JSONDecodeError
    ELSE IF s[e] = "]" THEN Decoded(JList(part.m), e + 1)
         ELSE IF s[e] = "," THEN ScanItems(s, SkipWs(s, e + 1), part.m)
         ELSE JSONDecodeError

\* json.loads(s): one value, surrounded by whitespace only
WholeDocument(s, r) == IF r.ok /\ SkipWs(s, r.i) = Len(s) + 1 THEN r ELSE JSONDecodeError
json_loads(s) == WholeDocument(s, ScanOnce(s, SkipWs(s, 1)))

\* json.encoder: the escapes of a str
RECURSIVE EscapeStr(_)
EscapeStr(s) ==
    IF s = <<>> THEN <<>>
    ELSE (CASE s[1] = "\"" -> <<"\\", "\"">>
            [] s[1] = "\\" -> <<"\\", "\\">>
            [] s[1] = "\n" -> <<"\\", "n">>
            [] s[1] = "\t" -> <<"\\", "t">>
            [] s[1] = "\r" -> <<"\\", "r">>
            [] s[1] = "\f" -> <<"\\", "f">>
            [] OTHER -> <<s[1]>>) \o EscapeStr(Tail(s))
Quoted(s) == <<"\"">> \o EscapeStr(s) \o <<"\"">>

\* json.dumps(v, separators=(',', ':'))
RECURSIVE json_dumps(_)
json_dumps(v) ==
    CASE v.t = "str" -> Quoted(v.s)
      [] v.t = "int" -> IntToStr(v.n)
      [] v.t = "lit" -> v.s
      [] v.t = "dict" ->
            <<"{">> \o Join(<<",">>, [i \in 1..Len(v.m) |->
                       Quoted(v.m[i][1]) \o <<":">> \o json_dumps(v.m[i][2])]) \o <<"}">>
      [] v.t = "list" ->
            <<"[">> \o Join(<<",">>, [i \in 1..Len(v.m) |-> json_dumps(v.m[i])]) \o <<"]">>

(***************************************************************************)
(* Outcome of a call: a returned value or a raised exception.              *)
(***************************************************************************)
Return(val) == [kind |-> "return", type |-> "", msg |-> "", val |-> val]
Raise(type, msg) == [kind |-> "raise", type |-> type, msg |-> msg, val |-> <<>>]
NotCalled == [kind |-> "none", type |-> "", msg |-> "", val |-> <<>>]

(***************************************************************************)
(* State: the launch inputs, the builder's attributes, the process state   *)
(* get_cmd reads (os.environ, the working directory), the MVAPICH          *)
(* hostfile on disk, the caller's environment dict, and the record of the  *)
(* last two get_cmd calls and of every add_export call.                    *)
(***************************************************************************)
VARIABLES
    pc,                 \* "new": not constructed, "ready": constructed, "failed": __init__ raised
    backend,            \* the MultiNodeRunner subclass
    args,               \* self.args
    world_info_base64,  \* self.world_info_base64
    resource_pool,      \* self.resource_pool
    user_arguments,     \* self.user_arguments
    user_script,        \* self.user_script
    exports,            \* self.exports
    init_error,         \* what __init__ raised
    os_environ,         \* os.environ
    cwd,                \* os.path.abspath('.')
    hostfile,           \* contents of MVAPICH_TMP_HOSTFILE
    environment,        \* the dict the caller passes as get_cmd's environment
    last,               \* the most recent get_cmd call
    prev,               \* the get_cmd call before it
    export_log          \* the <<key, var>> arguments of every add_export call

vars == <<pc, backend, args, world_info_base64, resource_pool, user_arguments,
          user_script, exports, init_error, os_environ, cwd, hostfile,
          environment, last, prev, export_log>>

Backends == {"pdsh", "openmpi", "slurm", "mvapich", "mosaicml"}

\* from .constants (imported, line 11)
PDSH_MAX_FAN_OUT == 1024
MVAPICH_TMP_HOSTFILE == <<"/", "t", "m", "p", "/", "d", "e", "e", "p", "s", "p", "e", "e", "d", "_", "m", "v", "a", "p", "i", "c", "h", "_", "h", "o", "s", "t", "f", "i", "l", "e">>

sys_executable == <<"/", "u", "s", "r", "/", "b", "i", "n", "/", "p", "y", "t", "h", "o", "n">>

\* mutant: a re-added key moves to the end of the table
add_export_moves(table, key, var) ==
    Append(SelectSeq(table, LAMBDA e : e[1] # Strip(key)), <<Strip(key), Strip(var)>>)

(***************************************************************************)
(* MultiNodeRunner.add_export                                              *)
(***************************************************************************)
add_export(table, key, var) == DictSet(table, Strip(key), Strip(var))

\* the add_export calls of each subclass's __init__, in order
init_exports(b) ==
    CASE b = "openmpi" -> << <<<<"U", "C", "X", "_", "T", "L", "S">>, <<"t", "c", "p">>>> >>
      [] b = "mvapich" -> << <<<<"M", "V", "2", "_", "S", "M", "P", "_", "U", "S", "E", "_", "C", "M", "A">>, <<"0">>>>,
                             <<<<"M", "V", "2", "_", "D", "E", "B", "U", "G", "_", "S", "H", "O", "W", "_", "B", "A", "C", "K", "T", "R", "A", "C", "E">>, <<"1">>>>,
                             <<<<"M", "V", "2", "_", "U", "S", "E", "_", "C", "U", "D", "A">>, <<"1">>>>,
                             <<<<"M", "V", "2", "_", "S", "U", "P", "P", "O", "R", "T", "_", "D", "L">>, <<"1">>>>,
                             <<<<"M", "V", "2", "_", "E", "N", "A", "B", "L", "E", "_", "A", "F", "F", "I", "N", "I", "T", "Y">>, <<"0">>>>,
                             <<<<"M", "V", "2", "_", "I", "N", "T", "E", "R", "_", "A", "L", "L", "G", "A", "T", "H", "E", "R", "_", "T", "U", "N", "I", "N", "G">>, <<"5">>>>,
                             <<<<"M", "V", "2", "_", "C", "U", "D", "A", "_", "U", "S", "E", "_", "N", "A", "I", "V", "E">>, <<"0">>>> >>
      [] OTHER -> <<>>

RECURSIVE AddAll(_, _)
AddAll(table, calls) ==
    IF calls = <<>> THEN table
    ELSE AddAll(add_export(table, calls[1][1], calls[1][2]), Tail(calls))

(***************************************************************************)
(* parse_user_args                                                         *)
(***************************************************************************)
\* MultiNodeRunner.parse_user_args
MultiNodeRunner_parse_user_args == Return(args.user_args)

\* mutant: flags quoted too
PDSHQuote_all(x) == <<"'">> \o x \o <<"'">>

\* PDSHRunner.parse_user_args
PDSHQuote(x) == IF StartsWith(x, "-") THEN x ELSE <<"'">> \o x \o <<"'">>
PDSHRunner_parse_user_args ==
    Return([i \in 1..Len(args.user_args) |-> PDSHQuote(args.user_args[i])])

\* the loop "for k, v in arg_dict.get('config_files', {}).items()": items is
\* the part of the dict still to visit, acc the config_files built so far
RECURSIVE LoadConfigFiles(_, _, _)
LoadConfigFiles(items, acc, msg) ==
    IF items = <<>> THEN Return(acc)
    ELSE LET k == items[1][1]
             v == items[1][2]
         IN  IF v.t # "str"
             THEN Raise("TypeError", "the JSON object must be str, bytes or bytearray")
             ELSE LET r == json_loads(v.s)
                  IN  IF ~r.ok THEN Raise("ValueError", msg)
                      ELSE LoadConfigFiles(Tail(items), DictSet(acc, k, r.v), msg)

config_files == <<"c", "o", "n", "f", "i", "g", "_", "f", "i", "l", "e", "s">>

\* the body of the loop over self.args.user_args
RewriteArg(arg, msg) ==
    IF StartsWith(arg, "{") /\ EndsWith(arg, "}")
    THEN LET r == json_loads(arg)
         IN  IF ~r.ok THEN Raise("ValueError", msg)
             ELSE IF DictHas(r.v.m, config_files)
                  THEN LET cf == DictGet(r.v.m, config_files)
                       IN  IF cf.t # "dict"
                           THEN Raise("AttributeError", "object has no attribute 'items'")
                           ELSE LET loaded == LoadConfigFiles(cf.m, <<>>, msg)
                                IN  IF loaded.kind = "raise" THEN loaded
                                    ELSE Return(json_dumps(JDict(
                                           DictSet(r.v.m, config_files, JDict(loaded.val)))))
                  ELSE Return(json_dumps(r.v))
    ELSE Return(arg)

RECURSIVE RewriteArgs(_, _, _)
RewriteArgs(todo, out, msg) ==
    IF todo = <<>> THEN Return(out)
    ELSE LET r == RewriteArg(todo[1], msg)
         IN  IF r.kind = "raise" THEN r
             ELSE RewriteArgs(Tail(todo), Append(out, r.val), msg)

SlurmMsg == "SLURM is picky and needs you to use plain json for your configs. Check for comments and lowercase trues"
MosaicMsg == "Please use plain json for your configs. Check for comments and lowercase trues"

\* SlurmRunner.parse_user_args
SlurmRunner_parse_user_args == RewriteArgs(args.user_args, <<>>, SlurmMsg)

\* MosaicMLRunner.parse_user_args
MosaicMLRunner_parse_user_args == RewriteArgs(args.user_args, <<>>, MosaicMsg)

\* self.parse_user_args(), dispatched on the subclass
parse_user_args(b) ==
    CASE b = "pdsh" -> PDSHRunner_parse_user_args
      [] b = "slurm" -> SlurmRunner_parse_user_args
      [] b = "mosaicml" -> MosaicMLRunner_parse_user_args
      [] OTHER -> MultiNodeRunner_parse_user_args

(***************************************************************************)
(* get_cmd.  Each builder's get_cmd yields its outcome (the command or the *)
(* exception), the caller's environment dict after the call and the        *)
(* hostfile's contents after the call.                                     *)
(***************************************************************************)
Effect(out, env, hf) == [out |-> out, environment |-> env, hostfile |-> hf]

Concat(parts) == Join(<<>>, parts)

\* mutant: the user arguments put before the script
UserCommand_args_first == user_arguments \o <<user_script>>

\* "[self.user_script] + self.user_arguments", the end of every get_cmd
UserCommand == <<user_script>> \o user_arguments

\* mutant: the environment replaced instead of updated
PDSH_environment_replaced(env) == << <<<<"P", "D", "S", "H", "_", "R", "C", "M", "D", "_", "T", "Y", "P", "E">>, <<"s", "s", "h">>>> >>

\* PDSHRunner.get_cmd: environment['PDSH_RCMD_TYPE'] = 'ssh'
PDSH_environment(env) == DictSet(env, <<"P", "D", "S", "H", "_", "R", "C", "M", "D", "_", "T", "Y", "P", "E">>, <<"s", "s", "h">>)

\* mutants: an assertion left out, or testing "> 0" as SlurmRunner.get_cmd does
Slurm_assert_nvlink_missing == TRUE
OpenMPI_assert_num_nodes_gpus_positive == ~(args.num_nodes > 0 \/ args.num_gpus > 0)
MVAPICH_assert_same_devices_missing(devices_per_node, process_per_node) == TRUE

\* the assertions of the get_cmd methods
OpenMPI_assert_include_exclude == args.include = <<>> /\ args.exclude = <<>>
OpenMPI_assert_num_nodes_gpus == args.num_nodes = -1 /\ args.num_gpus = -1
OpenMPI_assert_nvlink == ~args.detect_nvlink_pairs
Slurm_assert_nvlink == ~args.detect_nvlink_pairs
MVAPICH_assert_include_exclude == args.include = <<>> /\ args.exclude = <<>>
MVAPICH_assert_num_nodes_gpus == args.num_nodes = -1 /\ args.num_gpus = -1
MVAPICH_assert_nvlink == ~args.detect_nvlink_pairs
MVAPICH_assert_same_devices(devices_per_node, process_per_node) ==
    \A i \in 1..Len(devices_per_node) : devices_per_node[i] = process_per_node

\* mutant: the exports rendered last-inserted first
OpenMPI_export_cmd_reversed ==
    Concat([i \in 1..Len(exports) |->
              <<<<"-", "x">>, exports[Len(exports) + 1 - i][1] \o <<"=">>
                        \o exports[Len(exports) + 1 - i][2]>>])

\* OpenMPIRunner.get_cmd: export_cmd
OpenMPI_export_cmd ==
    Concat([i \in 1..Len(exports) |-> <<<<"-", "x">>, exports[i][1] \o <<"=">> \o exports[i][2]>>])

\* PDSHRunner.get_cmd
PDSHRunner_get_cmd(env, active_resources) ==
    LET env1 == PDSH_environment(env)
        active_workers == Join(<<",">>, DictKeys(active_resources))
        pdsh_cmd_args == <<<<"p", "d", "s", "h">>, <<"-", "f">>, IntToStr(PDSH_MAX_FAN_OUT), <<"-", "w">>, active_workers>>
        export_str == Concat([i \in 1..Len(exports) |->
                        <<"e", "x", "p", "o", "r", "t", " ">> \o exports[i][1] \o <<"=">> \o exports[i][2] \o <<";", " ">>])
        deepspeed_launch ==
            << export_str,
               <<"c", "d", " ">> \o cwd \o <<";">>,
               sys_executable,
               <<"-", "u">>,
               <<"-", "m">>,
               <<"d", "e", "e", "p", "s", "p", "e", "e", "d", ".", "l", "a", "u", "n", "c", "h", "e", "r", ".", "l", "a", "u", "n", "c", "h">>,
               <<"-", "-", "w", "o", "r", "l", "d", "_", "i", "n", "f", "o", "=">> \o world_info_base64,
               <<"-", "-", "n", "o", "d", "e", "_", "r", "a", "n", "k", "=", "%", "n">>,
               <<"-", "-", "m", "a", "s", "t", "e", "r", "_", "a", "d", "d", "r", "=">> \o args.master_addr,
               <<"-", "-", "m", "a", "s", "t", "e", "r", "_", "p", "o", "r", "t", "=">> \o IntToStr(args.master_port) >>
            \o (IF args.detect_nvlink_pairs THEN <<<<"-", "-", "d", "e", "t", "e", "c", "t", "_", "n", "v", "l", "i", "n", "k", "_", "p", "a", "i", "r", "s">>>> ELSE <<>>)
    IN  Effect(Return(pdsh_cmd_args \o deepspeed_launch \o UserCommand),
               env1, hostfile)

\* OpenMPIRunner.get_cmd
OpenMPIRunner_get_cmd(env, active_resources) ==
    IF ~OpenMPI_assert_include_exclude
    THEN Effect(Raise("AssertionError", "openmpi backend does not support worker include/exclusion"),
                env, hostfile)
    ELSE IF ~OpenMPI_assert_num_nodes_gpus
    THEN Effect(Raise("AssertionError", "openmpi backend does not support limiting num nodes/gpus"),
                env, hostfile)
    ELSE IF ~OpenMPI_assert_nvlink
    THEN Effect(Raise("AssertionError", "openmpi backend does not support remapping visible devices"),
                env, hostfile)
    ELSE
    LET total_process_count == Sum(DictValues(resource_pool))
        \* os.environ.get('RUN_MPI_AS_ROOT', False), tested for truth
        allow_run_as_root == "RUN_MPI_AS_ROOT" \in DOMAIN os_environ
                             /\ os_environ["RUN_MPI_AS_ROOT"] # <<>>
        mpirun_cmd == <<<<"m", "p", "i", "r", "u", "n">>>>
            \o (IF allow_run_as_root THEN <<<<"-", "-", "a", "l", "l", "o", "w", "-", "r", "u", "n", "-", "a", "s", "-", "r", "o", "o", "t">>>> ELSE <<>>)
            \o <<<<"-", "n">>, IntToStr(total_process_count), <<"-", "h", "o", "s", "t", "f", "i", "l", "e">>, args.hostfile,
                 <<"-", "-", "m", "c", "a">>, <<"b", "t", "l">>, <<"^", "o", "p", "e", "n", "i", "b">>, <<"-", "-", "m", "c", "a">>, <<"b", "t", "l", "_", "t", "c", "p", "_", "i", "f", "_", "i", "n", "c", "l", "u", "d", "e">>, <<"e", "t", "h", "0">>>>
        export_cmd == OpenMPI_export_cmd
        python_exec == <<sys_executable, <<"-", "u">>>>
    IN  Effect(Return(mpirun_cmd \o export_cmd \o python_exec \o UserCommand),
               env, hostfile)

\* SlurmRunner.get_cmd
SlurmRunner_get_cmd(env, active_resources) ==
    IF ~Slurm_assert_nvlink
    THEN Effect(Raise("AssertionError", "slurm backend does not support remapping visible devices"),
                env, hostfile)
    ELSE
    LET total_process_count == Sum(DictValues(resource_pool))
        srun_cmd == <<<<"s", "r", "u", "n">>, <<"-", "n">>, IntToStr(total_process_count)>>
            \o (IF args.comment # <<>> THEN <<<<"-", "-", "c", "o", "m", "m", "e", "n", "t">>, args.comment>> ELSE <<>>)
            \o (IF args.include # <<>> THEN <<<<"-", "-", "i", "n", "c", "l", "u", "d", "e">>, args.include>> ELSE <<>>)
            \o (IF args.exclude # <<>> THEN <<<<"-", "-", "e", "x", "c", "l", "u", "d", "e">>, args.exclude>> ELSE <<>>)
            \o (IF args.num_nodes > 0 THEN <<<<"-", "-", "n", "o", "d", "e", "s">>, IntToStr(args.num_nodes)>> ELSE <<>>)
            \o (IF args.num_gpus > 0 THEN <<<<"-", "-", "g", "p", "u", "s">>, IntToStr(args.num_gpus)>> ELSE <<>>)
        export_arg == <<"-", "-", "e", "x", "p", "o", "r", "t", "=", "A", "L", "L">> \o Concat([i \in 1..Len(exports) |->
                        <<",">> \o exports[i][1] \o <<"=">> \o exports[i][2]])
        python_exec == <<sys_executable, <<"-", "u">>>>
    IN  Effect(Return(srun_cmd \o <<export_arg>> \o python_exec \o UserCommand),
               env, hostfile)

\* mutant: the hostnames written on one line
HostfileLines_one_line(pool) == Join(<<",">>, DictKeys(pool)) \o <<"\n">>

\* the lines MVAPICHRunner.get_cmd writes to MVAPICH_TMP_HOSTFILE
HostfileLines(pool) == Concat([i \in 1..Len(pool) |-> pool[i][1] \o <<"\n">>])

\* MVAPICHRunner.get_cmd
MVAPICHRunner_get_cmd(env, active_resources) ==
    IF ~MVAPICH_assert_include_exclude
    THEN Effect(Raise("AssertionError", "mvapich backend does not support worker include/exclusion"),
                env, hostfile)
    ELSE IF ~MVAPICH_assert_num_nodes_gpus
    THEN Effect(Raise("AssertionError", "mvapich backend does not support limiting num nodes/gpus"),
                env, hostfile)
    ELSE IF ~MVAPICH_assert_nvlink
    THEN Effect(Raise("AssertionError", "openmpi backend does not support remapping visible devices"),
                env, hostfile)
    ELSE
    LET devices_per_node == DictValues(resource_pool)
        total_process_count == Sum(devices_per_node)
    IN  IF devices_per_node = <<>>
        THEN Effect(Raise("IndexError", "list index out of range"), env, hostfile)
        ELSE
        LET process_per_node == devices_per_node[1]
        IN  IF ~MVAPICH_assert_same_devices(devices_per_node, process_per_node)
            THEN Effect(Raise("AssertionError", "mvapich requires same number of devices per node"),
                        env, hostfile)
            ELSE
            LET mpirun_cmd == <<<<"m", "p", "i", "r", "u", "n">>, <<"-", "n", "p">>, IntToStr(total_process_count),
                                <<"-", "p", "p", "n">>, IntToStr(process_per_node),
                                <<"-", "-", "h", "o", "s", "t", "f", "i", "l", "e">>, MVAPICH_TMP_HOSTFILE>>
                export_cmd == Concat([i \in 1..Len(exports) |->
                                <<<<"-", "e", "n", "v">>, exports[i][1] \o <<"=">> \o exports[i][2]>>])
                python_exec == <<sys_executable, <<"-", "u">>>>
            IN  Effect(Return(mpirun_cmd \o export_cmd \o python_exec
                              \o UserCommand),
                       env, HostfileLines(resource_pool))

\* MosaicMLRunner.get_cmd
MosaicMLRunner_get_cmd(env, active_resources) ==
    IF "NODE_RANK" \notin DOMAIN os_environ THEN Effect(Raise("KeyError", "NODE_RANK"), env, hostfile)
    ELSE IF "MASTER_ADDR" \notin DOMAIN os_environ THEN Effect(Raise("KeyError", "MASTER_ADDR"), env, hostfile)
    ELSE IF "MASTER_PORT" \notin DOMAIN os_environ THEN Effect(Raise("KeyError", "MASTER_PORT"), env, hostfile)
    ELSE
    LET deepspeed_launch ==
            << sys_executable,
               <<"-", "u">>,
               <<"-", "m">>,
               <<"d", "e", "e", "p", "s", "p", "e", "e", "d", ".", "l", "a", "u", "n", "c", "h", "e", "r", ".", "l", "a", "u", "n", "c", "h">>,
               <<"-", "-", "w", "o", "r", "l", "d", "_", "i", "n", "f", "o", "=">> \o world_info_base64,
               <<"-", "-", "n", "o", "d", "e", "_", "r", "a", "n", "k", "=">> \o os_environ.NODE_RANK,
               <<"-", "-", "m", "a", "s", "t", "e", "r", "_", "a", "d", "d", "r", "=">> \o os_environ.MASTER_ADDR,
               <<"-", "-", "m", "a", "s", "t", "e", "r", "_", "p", "o", "r", "t", "=">> \o os_environ.MASTER_PORT >>
    IN  Effect(Return(deepspeed_launch \o UserCommand), env, hostfile)

\* runner.get_cmd(environment, active_resources), dispatched on the subclass
get_cmd(b, env, active_resources) ==
    CASE b = "pdsh" -> PDSHRunner_get_cmd(env, active_resources)
      [] b = "openmpi" -> OpenMPIRunner_get_cmd(env, active_resources)
      [] b = "slurm" -> SlurmRunner_get_cmd(env, active_resources)
      [] b = "mvapich" -> MVAPICHRunner_get_cmd(env, active_resources)
      [] b = "mosaicml" -> MosaicMLRunner_get_cmd(env, active_resources)

(***************************************************************************)
(* The record of a get_cmd call: its inputs as passed, the process state   *)
(* it ran in, its outcome, its inputs as the call left them, and the       *)
(* hostfile before and after.                                              *)
(***************************************************************************)
Inputs(env, active_resources) ==
    [args |-> args, world_info_base64 |-> world_info_base64,
     resource_pool |-> resource_pool, exports |-> exports,
     user_script |-> user_script, user_arguments |-> user_arguments,
     environment |-> env, active_resources |-> active_resources]

ProcessState == [os_environ |-> os_environ, cwd |-> cwd]

NoCall == [out |-> NotCalled, inputs |-> <<>>, process |-> <<>>, after |-> <<>>,
           hostfile_before |-> <<>>, hostfile_after |-> <<>>]

(***************************************************************************)
(* Actions                                                                 *)
(***************************************************************************)
\* runner = <Subclass>(args, world_info_base64[, resource_pool])
Construct ==
    /\ pc = "new"
    /\ LET parsed == parse_user_args(backend)
       IN  IF parsed.kind = "raise"
           THEN /\ pc' = "failed"
                /\ init_error' = parsed
                /\ UNCHANGED <<user_arguments, user_script, exports, export_log>>
           ELSE /\ pc' = "ready"
                /\ user_arguments' = parsed.val
                /\ user_script' = args.user_script
                /\ exports' = AddAll(<<>>, init_exports(backend))
                /\ export_log' = init_exports(backend)
                /\ UNCHANGED init_error
    /\ UNCHANGED <<backend, args, world_info_base64, resource_pool, os_environ,
                   cwd, hostfile, environment, last, prev>>

\* runner.add_export(key, var)
AddExport(key, var) ==
    /\ pc = "ready"
    /\ Len(export_log) < Len(init_exports(backend)) + MaxExports
    /\ exports' = add_export(exports, key, var)
    /\ export_log' = Append(export_log, <<key, var>>)
    /\ UNCHANGED <<pc, backend, args, world_info_base64, resource_pool,
                   user_arguments, user_script, init_error, os_environ, cwd,
                   hostfile, environment, last, prev>>

\* cmd = runner.get_cmd(environment, active_resources)
GetCmd(active_resources) ==
    /\ pc = "ready"
    /\ LET eff == get_cmd(backend, environment, active_resources)
       IN  /\ environment' = eff.environment
           /\ hostfile' = eff.hostfile
           /\ UNCHANGED <<pc, backend, args, world_info_base64, resource_pool,
                          user_arguments, user_script, exports, init_error,
                          os_environ, cwd, export_log>>
           /\ prev' = last
           /\ last' = [out |-> eff.out,
                       inputs |-> Inputs(environment, active_resources),
                       process |-> ProcessState,
                       after |-> [args |-> args', world_info_base64 |-> world_info_base64',
                                  resource_pool |-> resource_pool', exports |-> exports',
                                  user_script |-> user_script',
                                  user_arguments |-> user_arguments',
                                  environment |-> environment',
                                  active_resources |-> active_resources],
                       hostfile_before |-> hostfile,
                       hostfile_after |-> hostfile']

\* os.environ[name] = value, done by the process between calls
Putenv(name, value) ==
    /\ os_environ' = [n \in DOMAIN os_environ \cup {name} |->
                        IF n = name THEN value ELSE os_environ[n]]
    /\ os_environ' # os_environ
    /\ UNCHANGED <<pc, backend, args, world_info_base64, resource_pool,
                   user_arguments, user_script, exports, init_error, cwd,
                   hostfile, environment, last, prev, export_log>>

\* del os.environ[name]
Unsetenv(name) ==
    /\ name \in DOMAIN os_environ
    /\ os_environ' = [n \in DOMAIN os_environ \ {name} |-> os_environ[n]]
    /\ UNCHANGED <<pc, backend, args, world_info_base64, resource_pool,
                   user_arguments, user_script, exports, init_error, cwd,
                   hostfile, environment, last, prev, export_log>>

\* os.chdir(dir)
Chdir(dir) ==
    /\ cwd # dir
    /\ cwd' = dir
    /\ UNCHANGED <<pc, backend, args, world_info_base64, resource_pool,
                   user_arguments, user_script, exports, init_error, os_environ,
                   hostfile, environment, last, prev, export_log>>

(***************************************************************************)
(* Inputs                                                                  *)
(***************************************************************************)
LaunchArgs(ua, inc, exc, nn, ng, nv, cm) ==
    [user_script |-> <<"t", "r", "a", "i", "n", ".", "p", "y">>, user_args |-> ua,
     master_addr |-> <<"h", "1">>, master_port |-> 29500,
     hostfile |-> <<"/", "j", "o", "b", "/", "h", "o", "s", "t", "f", "i", "l", "e">>,
     include |-> inc, exclude |-> exc, num_nodes |-> nn, num_gpus |-> ng,
     detect_nvlink_pairs |-> nv, comment |-> cm]

\* user arguments: flags, positional values, and JSON-shaped arguments
ArgPool ==
    { <<"-", "-", "f", "o", "o">>, <<"b", "a", "r", " ", "b", "a", "z">>, <<>>, <<"{">>, <<"}">>, <<"{", " ", "}">>, <<"{", "a", "}">>,
      <<"{", "\"", "l", "r", "\"", ":", " ", "1", ",", " ", "\"", "f", "p", "1", "6", "\"", ":", " ", "t", "r", "u", "e", "}">>,
      <<"{", "\"", "a", "\"", ":", "1", ",", "\"", "a", "\"", ":", "2", "}">>,
      <<"{", "\"", "b", "\"", ":", " ", "[", "1", ",", " ", "-", "2", "0", ",", " ", "n", "u", "l", "l", "]", ",", " ", "\"", "a", "\"", ":", " ", "\"", "x", "\\", "\"", "y", "\"", "}">>,
      <<"{", "\"", "o", "n", "\"", ":", " ", "T", "r", "u", "e", "}">>,
      <<"{", "\"", "c", "o", "n", "f", "i", "g", "_", "f", "i", "l", "e", "s", "\"", ":", " ", "{", "\"", "a", "\"", ":", " ", "\"", "{", "\\", "\"", "x", "\\", "\"", ":", " ", "t", "r", "u", "e", "}", "\"", "}", "}">>,
      <<"{", "\"", "n", "\"", ":", " ", "0", ",", " ", "\"", "c", "o", "n", "f", "i", "g", "_", "f", "i", "l", "e", "s", "\"", ":", " ", "{", "\"", "a", "\"", ":", " ", "\"", " ", "7", " ", "\"", ",", " ", "\"", "b", "\"", ":", " ", "\"", "[", "]", "\"", "}", ",", " ", "\"", "z", "\"", ":", " ", "f", "a", "l", "s", "e", "}">>,
      <<"{", "\"", "c", "o", "n", "f", "i", "g", "_", "f", "i", "l", "e", "s", "\"", ":", " ", "{", "\"", "a", "\"", ":", " ", "\"", "{", "x", "}", "\"", "}", "}">>,
      <<"{", "\"", "c", "o", "n", "f", "i", "g", "_", "f", "i", "l", "e", "s", "\"", ":", " ", "{", "\"", "a", "\"", ":", " ", "{", "\"", "x", "\"", ":", " ", "1", "}", "}", "}">>,
      <<"{", "\"", "c", "o", "n", "f", "i", "g", "_", "f", "i", "l", "e", "s", "\"", ":", " ", "\"", "a", ".", "j", "s", "o", "n", "\"", "}">> }

UnconstrainedArgs(ua) == LaunchArgs(ua, <<>>, <<>>, -1, -1, FALSE, <<>>)

HostName(i) == <<"h">> \o NatToStr(i)

\* resource pools: up to MaxHosts hosts, in ascending or descending name
\* order, each with 1..MaxDevices devices
Pools ==
    UNION { { [i \in 1..k |-> <<HostName(i), c[i]>>] : c \in [1..k -> 1..MaxDevices] }
            \cup { [i \in 1..k |-> <<HostName(k + 1 - i), c[i]>>] : c \in [1..k -> 1..MaxDevices] }
            : k \in 0..MaxHosts }

DefaultPool == << <<<<"h", "1">>, 2>>, <<<<"h", "2">>, 2>> >>

FullEnviron ==
    [n \in {"NODE_RANK", "MASTER_ADDR", "MASTER_PORT"} |->
        CASE n = "NODE_RANK" -> <<"0">>
          [] n = "MASTER_ADDR" -> <<"h", "1">>
          [] n = "MASTER_PORT" -> <<"2", "9", "5", "0", "0">>]

Without(f, name) == [n \in DOMAIN f \ {name} |-> f[n]]

HomeDir == <<"/", "j", "o", "b">>
OtherDir == <<"/", "t", "m", "p">>
StaleHostfile == <<"o", "l", "d", "\n">>

InitWith(Bs, As, Ps, Os, Es) ==
    /\ pc = "new"
    /\ backend \in Bs
    /\ args \in As
    /\ world_info_base64 = <<"e", "3", "0", "=">>
    /\ resource_pool \in Ps
    /\ user_arguments = <<>>
    /\ user_script = <<>>
    /\ exports = <<>>
    /\ init_error = NotCalled
    /\ os_environ \in Os
    /\ cwd = HomeDir
    /\ hostfile = StaleHostfile
    /\ environment \in Es
    /\ last = NoCall
    /\ prev = NoCall
    /\ export_log = <<>>

CallerEnviron == << <<<<"P", "A", "T", "H">>, <<"/", "b", "i", "n">>>> >>

\* every capability setting, every pool
Init ==
    InitWith(Backends,
             { LaunchArgs(<<<<"-", "-", "f", "o", "o">>, <<"b", "a", "r", " ", "b", "a", "z">>>>, inc, exc, nn, ng, nv, cm) :
                 inc \in {<<>>, <<"h", "1">>}, exc \in {<<>>, <<"h", "2">>},
                 nn \in {-1, 0, 2}, ng \in {-1, 0, 1},
                 nv \in BOOLEAN, cm \in {<<>>, <<"j", "o", "b", " ", "1">>} },
             Pools, {FullEnviron}, {CallerEnviron})

\* every list of user arguments
InitArgs ==
    InitWith(Backends,
             { UnconstrainedArgs(ua) : ua \in SeqsUpTo(ArgPool, MaxArgs) }
             \cup { LaunchArgs(ua, <<"h", "1">>, <<"h", "2">>, 2, 1, FALSE, <<"j", "o", "b", " ", "1">>) :
                      ua \in SeqsUpTo(ArgPool, MaxArgs) }
             \cup { LaunchArgs(ua, <<>>, <<>>, -1, -1, TRUE, <<>>) :
                      ua \in SeqsUpTo(ArgPool, MaxArgs) },
             {DefaultPool}, {FullEnviron}, {CallerEnviron})

\* exports are added after construction
InitExports ==
    InitWith(Backends, { UnconstrainedArgs(<<<<"-", "-", "f", "o", "o">>, <<"b", "a", "r", " ", "b", "a", "z">>>>) }, {DefaultPool},
             {FullEnviron, Without(FullEnviron, "NODE_RANK"),
              Without(FullEnviron, "MASTER_ADDR"), Without(FullEnviron, "MASTER_PORT")},
             {CallerEnviron})

\* the process state changes between calls
InitProcess ==
    InitWith(Backends, { UnconstrainedArgs(<<<<"-", "-", "f", "o", "o">>, <<"b", "a", "r", " ", "b", "a", "z">>>>) }, {DefaultPool},
             {FullEnviron}, {CallerEnviron})

ExportKeys == { <<"N", "C", "C", "L", "_", "D", "E", "B", "U", "G">>, <<" ", "N", "C", "C", "L", "_", "D", "E", "B", "U", "G">>, <<"U", "C", "X", "_", "T", "L", "S", "\t">> }
ExportVars == { <<"I", "N", "F", "O">>, <<" ", "i", "b", " ", "\n">> }

ActiveChoices == { SubSeq(resource_pool, 1, k) : k \in 1..Len(resource_pool) }

Next ==
    \/ Construct
    \/ GetCmd(resource_pool)

NextExports ==
    \/ Construct
    \/ \E key \in ExportKeys, var \in ExportVars : AddExport(key, var)
    \/ GetCmd(resource_pool)

NextProcess ==
    \/ Construct
    \/ \E active \in ActiveChoices : GetCmd(active)
    \/ \E value \in {<<>>, <<"1">>} : Putenv("RUN_MPI_AS_ROOT", value)
    \/ \E value \in {<<"0">>, <<"1">>} : Putenv("NODE_RANK", value)
    \/ Unsetenv("RUN_MPI_AS_ROOT")
    \/ \E dir \in {HomeDir, OtherDir} : Chdir(dir)

Spec == Init /\ [][Next]_vars
SpecArgs == InitArgs /\ [][Next]_vars
SpecExports == InitExports /\ [][NextExports]_vars
SpecProcess == InitProcess /\ [][NextProcess]_vars

(***************************************************************************)
(* Properties                                                              *)
(***************************************************************************)
Called == last.out.kind # "none"
Returned == last.out.kind = "return"
Raised == last.out.kind = "raise"

\* the error kinds of the design, as the exceptions the code raises
UnsupportedConfigurationMsgs ==
    { "openmpi backend does not support worker include/exclusion",
      "openmpi backend does not support limiting num nodes/gpus",
      "openmpi backend does not support remapping visible devices",
      "slurm backend does not support remapping visible devices",
      "mvapich backend does not support worker include/exclusion",
      "mvapich backend does not support limiting num nodes/gpus" }
UnsupportedConfiguration(out) ==
    out.kind = "raise" /\ out.type = "AssertionError" /\ out.msg \in UnsupportedConfigurationMsgs
HeterogeneousResourcePool(out) ==
    /\ out.kind = "raise" /\ out.type = "AssertionError"
    /\ out.msg = "mvapich requires same number of devices per node"
InvalidUserConfig(out) == out.kind = "raise" /\ out.type = "ValueError"

IsSuffix(tail, s) ==
    Len(tail) <= Len(s) /\ SubSeq(s, Len(s) - Len(tail) + 1, Len(s)) = tail
\* cmd holds flag immediately followed by value
HasFlag(cmd, flag, value) ==
    \E i \in 1..(Len(cmd) - 1) : cmd[i] = flag /\ cmd[i + 1] = value

\* C1: whenever get_cmd returns a command, for any backend, the command ends
\* with user_script followed by the backend's normalized user arguments, in
\* order, with nothing after them.
C1_EndsWithUserCommand ==
    Returned =>
        IsSuffix(<<args.user_script>> \o parse_user_args(backend).val, last.out.val)

\* a Slurm launch with host restrictions whose JSON argument was rewritten
C1_Witness ==
    /\ Returned /\ backend = "slurm" /\ args.include # <<>>
    /\ Len(args.user_args) = 2 /\ user_arguments # args.user_args
    /\ IsSuffix(<<args.user_script>> \o user_arguments, last.out.val)

C3_NvlinkUnsupported ==
    (Called /\ backend \in {"openmpi", "mvapich", "slurm"} /\ args.detect_nvlink_pairs)
        => UnsupportedConfiguration(last.out)

\* Slurm, which accepts the other restrictions, with an empty pool
C3_Witness ==
    /\ Raised /\ backend = "slurm" /\ args.detect_nvlink_pairs
    /\ args.include # <<>> /\ args.num_nodes = 2 /\ resource_pool = <<>>

FirstCall(log, k) == CHOOSE i \in 1..Len(log) : Strip(log[i][1]) = k /\ \A j \in 1..(i - 1) : Strip(log[j][1]) # k
LastCall(log, k) == CHOOSE i \in 1..Len(log) : Strip(log[i][1]) = k /\ \A j \in (i + 1)..Len(log) : Strip(log[j][1]) # k
Trimmed(x) == x = <<>> \/ (x[1] \notin Whitespace /\ x[Len(x)] \notin Whitespace)

\* C4: after any sequence of add_export calls the table holds each trimmed
\* key exactly once, mapped to the trimmed value of the last call for that
\* key, and the keys iterate in the order of their first insertion.
C4_ExportTable ==
    pc = "ready" =>
        /\ \A i, j \in 1..Len(exports) : exports[i][1] = exports[j][1] => i = j
        /\ {exports[i][1] : i \in 1..Len(exports)}
              = {Strip(export_log[i][1]) : i \in 1..Len(export_log)}
        /\ \A i \in 1..Len(exports) :
              /\ Trimmed(exports[i][1]) /\ Trimmed(exports[i][2])
              /\ exports[i][2] = Strip(export_log[LastCall(export_log, exports[i][1])][2])
        /\ \A i, j \in 1..Len(exports) :
              i < j => FirstCall(export_log, exports[i][1]) < FirstCall(export_log, exports[j][1])

\* UCX_TLS re-added, untrimmed, after NCCL_DEBUG: it keeps the first place
C4_Witness ==
    /\ pc = "ready" /\ backend = "openmpi"
    /\ export_log = << <<<<"U", "C", "X", "_", "T", "L", "S">>, <<"t", "c", "p">>>>, <<<<" ", "N", "C", "C", "L", "_", "D", "E", "B", "U", "G">>, <<"I", "N", "F", "O">>>>,
                       <<<<"U", "C", "X", "_", "T", "L", "S", "\t">>, <<" ", "i", "b", " ", "\n">>>> >>
    /\ exports = << <<<<"U", "C", "X", "_", "T", "L", "S">>, <<"i", "b">>>>, <<<<"N", "C", "C", "L", "_", "D", "E", "B", "U", "G">>, <<"I", "N", "F", "O">>>> >>

CapabilitiesUnconstrained ==
    /\ args.include = <<>> /\ args.exclude = <<>>
    /\ args.num_nodes = -1 /\ args.num_gpus = -1

\* C5: MVAPICH get_cmd with a non-empty pool and an otherwise valid
\* configuration: with equal device counts it emits -np <sum of the counts>
\* and -ppn <the common count>; with unequal counts it raises the
\* heterogeneous-pool error and returns no command.
C5_MvapichProcessCounts ==
    (Called /\ backend = "mvapich" /\ resource_pool # <<>>
       /\ CapabilitiesUnconstrained /\ ~args.detect_nvlink_pairs) =>
        LET counts == [i \in 1..Len(resource_pool) |-> resource_pool[i][2]]
        IN  IF \A i, j \in 1..Len(counts) : counts[i] = counts[j]
            THEN /\ Returned
                 /\ HasFlag(last.out.val, <<"-", "n", "p">>, IntToStr(Sum(counts)))
                 /\ HasFlag(last.out.val, <<"-", "p", "p", "n">>, IntToStr(counts[1]))
            ELSE HeterogeneousResourcePool(last.out)

\* two hosts with two devices each: -np 4 -ppn 2
C5_Witness ==
    /\ Returned /\ backend = "mvapich"
    /\ resource_pool = << <<<<"h", "1">>, 2>>, <<<<"h", "2">>, 2>> >>
    /\ HasFlag(last.out.val, <<"-", "n", "p">>, <<"4">>) /\ HasFlag(last.out.val, <<"-", "p", "p", "n">>, <<"2">>)

\* C6: the OpenMPI and MVAPICH get_cmd raise the unsupported-configuration
\* error whenever include or exclude is non-empty or num_nodes or num_gpus
\* differs from -1, and return a command only when all four are
\* unconstrained and detect_nvlink_pairs is false.
C6_MpiCapabilityLimits ==
    (Called /\ backend \in {"openmpi", "mvapich"}) =>
        /\ ~CapabilitiesUnconstrained => UnsupportedConfiguration(last.out)
        /\ Returned => (CapabilitiesUnconstrained /\ ~args.detect_nvlink_pairs)

\* OpenMPI asked for num_gpus = 0, everything else unconstrained
C6_Witness ==
    /\ Raised /\ backend = "openmpi" /\ args.num_gpus = 0 /\ args.num_nodes = -1
    /\ args.include = <<>> /\ args.exclude = <<>> /\ ~args.detect_nvlink_pairs

JsonShaped(arg) == StartsWith(arg, "{") /\ EndsWith(arg, "}")
\* arg does not parse as JSON, or one of its config_files values does not
Unparsable(arg) ==
    \/ ~json_loads(arg).ok
    \/ /\ DictHas(json_loads(arg).v.m, config_files)
       /\ DictGet(json_loads(arg).v.m, config_files).t = "dict"
       /\ \E e \in Range(DictGet(json_loads(arg).v.m, config_files).m) :
             e[2].t = "str" /\ ~json_loads(e[2].s).ok

\* C7: under the JSON-rewrite policy (Slurm, MosaicML) an argument that is
\* not JSON-shaped passes through unchanged at its position, a JSON-shaped
\* argument that cannot be parsed makes the builder fail with the
\* invalid-user-config error (ValueError), and no other kind of error
\* escapes the normalizer.
C7_OnlyInvalidUserConfigEscapes ==
    (backend \in {"slurm", "mosaicml"} /\ pc # "new") =>
        /\ pc = "ready" =>
              /\ Len(user_arguments) = Len(args.user_args)
              /\ \A i \in 1..Len(args.user_args) :
                    ~JsonShaped(args.user_args[i]) => user_arguments[i] = args.user_args[i]
        /\ (\E i \in 1..Len(args.user_args) :
               JsonShaped(args.user_args[i]) /\ Unparsable(args.user_args[i]))
              => (pc = "failed" /\ InvalidUserConfig(init_error))
        /\ pc = "failed" => InvalidUserConfig(init_error)

\* C8: the OpenMPI command holds exactly one "-x", "K=V" pair per entry of
\* the export table, in the table's order, between the mpirun invocation
\* and the python launcher.
C8_OpenMpiExportSegment ==
    (Returned /\ backend = "openmpi") =>
        LET cmd == last.out.val
            table == last.inputs.exports
            n == Len(table)
            launcher == Len(cmd) - Len(user_arguments) - 2
            first == launcher - 2 * n
        IN  /\ first > 1 /\ cmd[1] = <<"m", "p", "i", "r", "u", "n">>
            /\ \A j \in 1..(first - 1) : cmd[j] # <<"-", "x">>
            /\ \A i \in 1..n :
                  /\ cmd[first + 2 * (i - 1)] = <<"-", "x">>
                  /\ cmd[first + 2 * (i - 1) + 1] = table[i][1] \o <<"=">> \o table[i][2]
            /\ cmd[launcher] = sys_executable /\ cmd[launcher + 1] = <<"-", "u">>
            /\ cmd[launcher + 2] = user_script

\* UCX_TLS=tcp then NCCL_DEBUG=INFO render as -x UCX_TLS=tcp -x NCCL_DEBUG=INFO
C8_Witness ==
    /\ Returned /\ backend = "openmpi"
    /\ last.inputs.exports = << <<<<"U", "C", "X", "_", "T", "L", "S">>, <<"t", "c", "p">>>>, <<<<"N", "C", "C", "L", "_", "D", "E", "B", "U", "G">>, <<"I", "N", "F", "O">>>> >>
    /\ \E i \in 1..(Len(last.out.val) - 4) :
          SubSeq(last.out.val, i, i + 4)
             = <<<<"-", "x">>, <<"U", "C", "X", "_", "T", "L", "S", "=", "t", "c", "p">>, <<"-", "x">>, <<"N", "C", "C", "L", "_", "D", "E", "B", "U", "G", "=", "I", "N", "F", "O">>, sys_executable>>

\* C9: the PDSH builder's normalized arguments have the length and order of
\* args.user_args; each is the input unchanged when the input starts with
\* "-", and the input inside one pair of single quotes otherwise.
C9_PdshQuotePolicy ==
    backend = "pdsh" =>
        /\ pc # "failed"
        /\ pc = "ready" =>
              /\ Len(user_arguments) = Len(args.user_args)
              /\ \A i \in 1..Len(args.user_args) :
                    LET x == args.user_args[i]
                    IN  user_arguments[i] =
                           IF x # <<>> /\ x[1] = "-" THEN x
                           ELSE <<"'">> \o x \o <<"'">>

\* ["--foo", "bar baz"] normalizes to ["--foo", "'bar baz'"]
C9_Witness ==
    /\ backend = "pdsh" /\ pc = "ready"
    /\ args.user_args = <<<<"-", "-", "f", "o", "o">>, <<"b", "a", "r", " ", "b", "a", "z">>>>
    /\ user_arguments = <<<<"-", "-", "f", "o", "o">>, <<"'", "b", "a", "r", " ", "b", "a", "z", "'">>>>

RECURSIVE OnePerLine(_)
OnePerLine(hosts) ==
    IF hosts = <<>> THEN <<>> ELSE hosts[1] \o <<"\n">> \o OnePerLine(Tail(hosts))

\* C10: a failing MVAPICH get_cmd leaves the hostfile as it was; the
\* hostfile is written only by a call that returns a command, and then
\* holds the pool's hostnames, one per line, in pool order.
C10_HostfileWrittenOnSuccessOnly ==
    backend = "mvapich" =>
        /\ ~Called => hostfile = StaleHostfile
        /\ Raised => (last.hostfile_after = last.hostfile_before
                      /\ hostfile = StaleHostfile)
        /\ Returned => (last.hostfile_after = OnePerLine(DictKeys(resource_pool))
                        /\ hostfile = last.hostfile_after)

\* the last check to fail, unequal device counts, leaves the old hostfile
C10_Witness ==
    /\ backend = "mvapich" /\ Raised /\ HeterogeneousResourcePool(last.out)
    /\ prev.out.kind = "raise" /\ hostfile = StaleHostfile

=============================================================================
